---- MODULE Spec2Model ----
(***************************************************************************)
(* A model of the two clients of the zep-go repository:                    *)
(*   - the legacy hand-written client (src/main.go): NewZepClient,         *)
(*     CheckServer, HandleRequest, GetFullURL;                             *)
(*   - the generated search client (src/unnamed/part_000): NewClient, Get  *)
(*     and Get's errorDecoder.                                             *)
(*                                                                         *)
(* Go strings are modelled as sequences of tokens.  The character "/" is   *)
(* always a token of its own, every other token stands for a run of        *)
(* characters that holds no "/", so TrimSuffix and Join act as they do on  *)
(* the characters.  The empty string is the empty sequence.                *)
(***************************************************************************)
EXTENDS Integers, Sequences, FiniteSets, TLC

VARIABLES
    zclient,  \* the legacy client NewZepClient returned
    call,     \* the last call on either client: its arguments and what it returned
    stdout,   \* the lines the last legacy call printed
    sclient,  \* the search client NewClient returned
    heap,     \* the http.Header objects alive between calls, by address
    pc        \* "idle", or "calling" while a Get waits for the answer to its request

legacyVars == <<zclient, stdout>>
searchVars == <<sclient, heap, pc>>
vars == <<zclient, call, stdout, sclient, heap, pc>>

\* ------------------------------------------------------------------ bounds

\* Longest serverURL handed to NewZepClient, in tokens.
MaxUrlLen == 3
\* Longest endpoint handed to GetFullURL, in tokens.
MaxEndpointLen == 2

\* ------------------------------------------------------------- Go strings

RECURSIVE SeqsUpTo(_, _)
SeqsUpTo(S, n) ==
    IF n = 0 THEN {<<>>}
    ELSE LET shorter == SeqsUpTo(S, n - 1)
         IN  shorter \cup {Append(s, x) : s \in {t \in shorter : Len(t) = n - 1}, x \in S}

\* strings.HasSuffix(s, suffix)
HasSuffix(s, suffix) ==
    /\ Len(s) >= Len(suffix)
    /\ SubSeq(s, Len(s) - Len(suffix) + 1, Len(s)) = suffix

\* strings.TrimSuffix(s, suffix): s without the suffix, once, if s ends with it.
TrimSuffix(s, suffix) ==
    IF HasSuffix(s, suffix) THEN SubSeq(s, 1, Len(s) - Len(suffix)) ELSE s

\* strings.Join(paths, sep)
RECURSIVE Join(_, _)
Join(paths, sep) ==
    IF Len(paths) = 0 THEN <<>>
    ELSE IF Len(paths) = 1 THEN paths[1]
    ELSE paths[1] \o sep \o Join(Tail(paths), sep)

\* -------------------------------------------------------------- constants

APIBasePath == <<"/", "api", "/", "v1">>
ServerErrorMessage == "Failed to connect to Zep server. Please check that the server is running, the API URL is correct, and no other process is using the same port"
\* MinServerVersion = "0.16.0", as the constraint ">= 0.16.0" reads it.
MinServerVersion == <<0, 16, 0>>
MinServerWarningMsg == "You are using an incompatible Zep server version. Please upgrade to 0.16.0 or later."
StatusOK == 200
StatusNotFound == 404
StatusUnauthorized == 401

\* ----------------------------------------------------------------- errors

\* A Go error value: kind "nil" is the nil error.  Message is the list of the
\* pieces the message is concatenated from.
NilError == [kind |-> "nil", Message |-> <<>>]
ZepError(msg) == [kind |-> "ZepError", Message |-> msg]
NotFoundError(msg) == [kind |-> "NotFoundError", Message |-> msg]
AuthenticationError(msg) == [kind |-> "AuthenticationError", Message |-> msg]
APIError(msg) == [kind |-> "APIError", Message |-> msg]
\* The error semver.NewVersion returns for a string that is no version.
InvalidSemVer == [kind |-> "semver.ErrInvalidSemVer", Message |-> <<"Invalid Semantic Version">>]
\* The error http.Client.Do returns when no response arrives.
TransportError == [kind |-> "url.Error", Message |-> <<"connection refused">>]

\* ------------------------------------------------------- semantic versions

NumTok == {"0", "15", "16", "17"}
NumVal(t) == CASE t = "0" -> 0 [] t = "15" -> 15 [] t = "16" -> 16 [] t = "17" -> 17
PreTok == NumTok \cup {"rc"}

\* s is x, or x.x, or x.x.x ... with every x in toks, of at most maxParts parts.
IsDotted(s, toks, maxParts) ==
    /\ Len(s) % 2 = 1
    /\ (Len(s) + 1) \div 2 <= maxParts
    /\ \A i \in 1..Len(s) : IF i % 2 = 1 THEN s[i] \in toks ELSE s[i] = "."

FirstDash(s) ==
    IF \E i \in 1..Len(s) : s[i] = "-"
    THEN CHOOSE i \in 1..Len(s) : s[i] = "-" /\ \A j \in 1..(i - 1) : s[j] # "-"
    ELSE 0

\* semver.NewVersion: an optional "v", one to three dotted numbers (missing
\* ones read as 0), an optional "-" and dotted prerelease identifiers (none
\* of the headers drawn here has a second "-").
NewVersion(version) ==
    LET s    == IF Len(version) > 0 /\ version[1] = "v" THEN Tail(version) ELSE version
        d    == FirstDash(s)
        core == IF d = 0 THEN s ELSE SubSeq(s, 1, d - 1)
        pre  == IF d = 0 THEN <<>> ELSE SubSeq(s, d + 1, Len(s))
        part(k) == IF Len(core) >= 2 * k - 1 THEN NumVal(core[2 * k - 1]) ELSE 0
        ok   == /\ IsDotted(core, NumTok, 3)
                /\ d # 0 => IsDotted(pre, PreTok, 2)
    IN  IF ok
        THEN [err |-> FALSE, v |-> <<part(1), part(2), part(3)>>, pre |-> pre]
        ELSE [err |-> TRUE, v |-> <<0, 0, 0>>, pre |-> <<>>]

\* Version.Compare on the numbers: -1, 0, 1.
CompareNums(a, b) ==
    IF a[1] # b[1] THEN (IF a[1] < b[1] THEN -1 ELSE 1)
    ELSE IF a[2] # b[2] THEN (IF a[2] < b[2] THEN -1 ELSE 1)
    ELSE IF a[3] # b[3] THEN (IF a[3] < b[3] THEN -1 ELSE 1)
    ELSE 0

\* Constraints.Check for ">= 0.16.0": a version with a prerelease never
\* satisfies a constraint that names none; otherwise the numbers are compared.
ConstraintCheck(ver) ==
    IF ver.pre # <<>> THEN FALSE
    ELSE CompareNums(ver.v, MinServerVersion) >= 0

isVersionGreaterOrEqual(version) ==
    LET cur == NewVersion(version)
    IN  IF cur.err THEN [ok |-> FALSE, err |-> InvalidSemVer]
        ELSE [ok |-> ConstraintCheck(cur), err |-> NilError]

\* ---------------------------------------------------------- legacy client

\* What Client.Do gives back: a transport error, or a response with a status
\* code and an X-Zep-Version header (<<>> when the header is absent).
Statuses == {200, 201, 401, 404, 500}
HealthStatuses == {200, 201, 500}
VersionHeaders ==
    { <<>>, <<"rc">>, <<"0", ".", "16", ".", "0", ".", "0">>,
      <<"0", ".", "0", ".", "0">>, <<"0", ".", "15">>,
      <<"v", "0", ".", "15", ".", "0">>,
      <<"0", ".", "16", ".", "0", "-", "rc">>,
      <<"0", ".", "16", ".", "0">>, <<"0", ".", "16">>,
      <<"0", ".", "17", ".", "0">>, <<"16">>,
      <<"0", ".", "17", ".", "0", "-", "rc">> }
NoResponse == [err |-> TRUE, StatusCode |-> 0, Version |-> <<>>]
\* The answers to the health request of CheckServer.
HealthOutcomes ==
    {NoResponse} \cup [err : {FALSE}, StatusCode : HealthStatuses, Version : VersionHeaders]
\* The answers to a request of HandleRequest, which reads the status alone.
RequestOutcomes ==
    {NoResponse} \cup [err : {FALSE}, StatusCode : Statuses, Version : {<<>>}]

NoClient == [made |-> FALSE, ServerURL |-> <<>>, Headers |-> {}]

WarningLine == <<"Warning: ", MinServerWarningMsg>>

\* CheckServer as it would be if a version below the minimum were an error.
CheckServer_FailBelowMin(z, resp) ==
    IF resp.err THEN [err |-> TransportError, out |-> <<>>]
    ELSE LET g == isVersionGreaterOrEqual(resp.Version)
         IN  IF g.err.kind # "nil" THEN [err |-> g.err, out |-> <<>>]
             ELSE IF ~g.ok THEN [err |-> ZepError(<<MinServerWarningMsg>>), out |-> <<>>]
             ELSE IF resp.StatusCode # 200
                  THEN [err |-> ZepError(<<ServerErrorMessage>>), out |-> <<>>]
                  ELSE [err |-> NilError, out |-> <<>>]

\* CheckServer as it would be without the test of the status code.
CheckServer_NoStatusCheck(z, resp) ==
    IF resp.err THEN [err |-> TransportError, out |-> <<>>]
    ELSE LET g == isVersionGreaterOrEqual(resp.Version)
             out == IF ~g.ok THEN <<WarningLine>> ELSE <<>>
         IN  IF g.err.kind # "nil" THEN [err |-> g.err, out |-> <<>>]
             ELSE [err |-> NilError, out |-> out]

\* CheckServer on client z when the health request is answered by resp:
\* the error returned and the lines printed.
CheckServer(z, resp) ==
    IF resp.err THEN [err |-> TransportError, out |-> <<>>]
    ELSE LET g == isVersionGreaterOrEqual(resp.Version)
             out == IF ~g.ok THEN <<WarningLine>> ELSE <<>>
         IN  IF g.err.kind # "nil" THEN [err |-> g.err, out |-> <<>>]
             ELSE IF resp.StatusCode # 200
                  THEN [err |-> ZepError(<<ServerErrorMessage>>), out |-> out]
                  ELSE [err |-> NilError, out |-> out]

AuthHeaders(apiKey) ==
    IF apiKey # <<>> THEN {<<"Authorization", <<"Bearer ">> \o apiKey>>} ELSE {}

\* NewZepClient as it would be if a failed check gave no client.
NewZepClient_NilOnFailure(serverURL, apiKey, resp) ==
    LET c == [made |-> TRUE, ServerURL |-> TrimSuffix(serverURL, <<"/">>),
              Headers |-> AuthHeaders(apiKey)]
        r == CheckServer(c, resp)
    IN  IF r.err.kind # "nil"
        THEN [client |-> NoClient, err |-> r.err, out |-> r.out \o <<r.err.Message>>]
        ELSE [client |-> c, err |-> r.err, out |-> r.out]

\* NewZepClient: the client returned and the lines printed.
NewZepClient(serverURL, apiKey, resp) ==
    LET c == [made |-> TRUE, ServerURL |-> TrimSuffix(serverURL, <<"/">>),
              Headers |-> AuthHeaders(apiKey)]
        r == CheckServer(c, resp)
    IN  [client |-> c, err |-> r.err,
         out |-> IF r.err.kind # "nil" THEN r.out \o <<r.err.Message>> ELSE r.out]

\* HandleRequest as it would be without the case of StatusUnauthorized.
HandleRequest_401AsAPIError(resp, notFoundMessage) ==
    IF resp.err
    THEN [response |-> FALSE, err |-> ZepError(<<ServerErrorMessage, ": ">> \o TransportError.Message)]
    ELSE IF resp.StatusCode = StatusOK THEN [response |-> TRUE, err |-> NilError]
    ELSE IF resp.StatusCode = StatusNotFound
         THEN [response |-> FALSE, err |-> NotFoundError(<<notFoundMessage>>)]
    ELSE [response |-> FALSE,
          err |-> APIError(<<"Got an unexpected status code: ", resp.StatusCode>>)]

\* HandleRequest: response is TRUE when the *http.Response is returned, FALSE
\* when nil is.
HandleRequest(resp, notFoundMessage) ==
    IF resp.err
    THEN [response |-> FALSE, err |-> ZepError(<<ServerErrorMessage, ": ">> \o TransportError.Message)]
    ELSE IF resp.StatusCode = StatusOK THEN [response |-> TRUE, err |-> NilError]
    ELSE IF resp.StatusCode = StatusNotFound
         THEN [response |-> FALSE, err |-> NotFoundError(<<notFoundMessage>>)]
    ELSE IF resp.StatusCode = StatusUnauthorized
         THEN [response |-> FALSE, err |-> AuthenticationError(<<"Authentication failed.">>)]
    ELSE [response |-> FALSE,
          err |-> APIError(<<"Got an unexpected status code: ", resp.StatusCode>>)]

joinPaths(paths) == Join(paths, <<"/">>)

GetFullURL(z, endpoint) == joinPaths(<<z.ServerURL, APIBasePath, endpoint>>)

\* ---------------------------------------------------------- search client

DefaultBaseURL == <<"https:", "/", "/", "api.getzep.com", "/", "api", "/", "v2">>

\* http.Header with at most one value per key: a function from the header
\* names to the value, "" for a name that is not set (what Header.Get gives).
HeaderKeys == {"Authorization", "X-Trace"}
NoHeaders == [k \in HeaderKeys |-> ""]

\* A new object on the heap.
HeapAlloc(h, m) == [heap |-> Append(h, m), addr |-> Len(h) + 1]

\* c.header handed on as it is, without the Clone.
CloneHeader_Alias(h, a) == [heap |-> h, addr |-> a]

\* c.header.Clone(): a new object with the content of the one at a.
CloneHeader(h, a) == HeapAlloc(h, h[a])

\* options.ToHeader(): a new object with the headers of the options.
ToHeader(h, options) == HeapAlloc(h, options.Header)

\* core.MergeHeaders(left, right): writes every header set in right into the
\* object left, and returns left.
MergeHeaders(h, left, right) ==
    [h EXCEPT ![left] = [k \in HeaderKeys |->
                            IF h[right][k] # "" THEN h[right][k] ELSE h[left][k]]]

NoSearchClient == [made |-> FALSE, baseURL |-> <<>>, header |-> 0]

\* NewClient(opts...)
NewClient(h, options) ==
    LET hd == ToHeader(h, options)
    IN  [client |-> [made |-> TRUE, baseURL |-> options.BaseURL, header |-> hd.addr],
         heap |-> hd.heap]

\* The base URL as it would be if the client came before the call.
ChooseBaseURL_ClientFirst(c, options) ==
    IF c.baseURL # <<>> THEN c.baseURL
    ELSE IF options.BaseURL # <<>> THEN options.BaseURL
    ELSE DefaultBaseURL

\* Get, lines 48-54: the base URL of the request.
ChooseBaseURL(c, options) ==
    IF options.BaseURL # <<>> THEN options.BaseURL
    ELSE IF c.baseURL # <<>> THEN c.baseURL
    ELSE DefaultBaseURL

\* Get, lines 55-63: the URL of the request.
EndpointURL(baseURL, sessionID, request) ==
    baseURL \o <<"/", "sessions", "/", sessionID, "/", "search">>
        \o (IF request.query # <<>> THEN <<"?">> \o request.query ELSE <<>>)

\* Get, line 65: the headers of the request, and the heap the merge leaves.
RequestHeaders(h, c, options) ==
    LET cl == CloneHeader(h, c.header)
        oh == ToHeader(cl.heap, options)
        h2 == MergeHeaders(oh.heap, cl.addr, oh.addr)
    IN  [headers |-> h2[cl.addr], heap |-> h2]

\* Errors of the search client: the status code and raw body of the
\* core.APIError they hold, and whether the typed body was decoded.
NoErr == [kind |-> "nil", StatusCode |-> 0, raw |-> "", decoded |-> FALSE]
NewAPIError(statusCode, raw) ==
    [kind |-> "core.APIError", StatusCode |-> statusCode, raw |-> raw, decoded |-> FALSE]
OtherErr(kind) == [kind |-> kind, StatusCode |-> 0, raw |-> "", decoded |-> FALSE]

\* Response bodies.  A body that cannot be read makes io.ReadAll fail.
BodyTexts == {"", "[]", "{\"message\":\"m\"}"}
\* json.Decoder.Decode into the struct of a typed error: a JSON object does.
DecodesAsErrorBody(raw) == raw = "{\"message\":\"m\"}"
\* The decoding of a successful body into []*MemorySearchResult: an array does.
DecodesAsResults(raw) == raw = "[]"

\* value := new(T); value.APIError = apiError; decoder.Decode(value)
TypedError(kind, apiError) == [apiError EXCEPT !.kind = kind, !.decoded = TRUE]

\* The errorDecoder as it would be if a failed Decode returned its own error.
errorDecoder_ReturnDecodeError(statusCode, body) ==
    IF ~body.readable THEN OtherErr("io.ReadAll error")
    ELSE LET apiError == NewAPIError(statusCode, body.text)
         IN  IF statusCode = 404
             THEN IF DecodesAsErrorBody(body.text)
                  THEN TypedError("NotFoundError", apiError)
                  ELSE OtherErr("json error")
             ELSE IF statusCode = 500
             THEN IF DecodesAsErrorBody(body.text)
                  THEN TypedError("InternalServerError", apiError)
                  ELSE OtherErr("json error")
             ELSE apiError

\* The errorDecoder as it would be without the case of 500.
errorDecoder_No500Case(statusCode, body) ==
    IF ~body.readable THEN OtherErr("io.ReadAll error")
    ELSE LET apiError == NewAPIError(statusCode, body.text)
         IN  IF statusCode = 404
             THEN IF DecodesAsErrorBody(body.text)
                  THEN TypedError("NotFoundError", apiError)
                  ELSE apiError
             ELSE apiError

\* The errorDecoder of Get.
errorDecoder(statusCode, body) ==
    IF ~body.readable THEN OtherErr("io.ReadAll error")
    ELSE LET apiError == NewAPIError(statusCode, body.text)
         IN  IF statusCode = 404
             THEN IF DecodesAsErrorBody(body.text)
                  THEN TypedError("NotFoundError", apiError)
                  ELSE apiError
             ELSE IF statusCode = 500
             THEN IF DecodesAsErrorBody(body.text)
                  THEN TypedError("InternalServerError", apiError)
                  ELSE apiError
             ELSE apiError

\* caller.Call once the attempts are over: the transport error, the decoded
\* response of a 2xx answer, or what the error decoder makes of any other.
CallerCall(answer) ==
    IF answer.err THEN [response |-> FALSE, err |-> OtherErr("url.Error")]
    ELSE IF answer.StatusCode >= 200 /\ answer.StatusCode < 300
    THEN IF answer.body.readable /\ DecodesAsResults(answer.body.text)
         THEN [response |-> TRUE, err |-> NoErr]
         ELSE [response |-> FALSE, err |-> OtherErr("json error")]
    ELSE [response |-> FALSE, err |-> errorDecoder(answer.StatusCode, answer.body)]

\* ---------------------------------------------------------------- inputs

ServerURLs == SeqsUpTo({"h", "/"}, MaxUrlLen)
Endpoints == SeqsUpTo({"s", "/"}, MaxEndpointLen)
ApiKeys == {<<>>, <<"k">>}
NotFoundMessages == {"", "session not found"}

BaseURLs == {<<>>, <<"https:", "/", "/", "a">>, <<"https:", "/", "/", "b">>}
HeaderSets ==
    { NoHeaders,
      [k \in HeaderKeys |-> IF k = "Authorization" THEN "a" ELSE ""],
      [k \in HeaderKeys |-> IF k = "Authorization" THEN "b" ELSE ""],
      [k \in HeaderKeys |-> IF k = "Authorization" THEN "a" ELSE "t"] }
RequestOptions == [BaseURL : BaseURLs, Header : HeaderSets]
\* A MemorySearchPayload: whether core.QueryValues fails on it, and the query
\* string it encodes to.
Requests ==
    { [queryErr |-> TRUE, query |-> <<>>], [queryErr |-> FALSE, query |-> <<>>],
      [queryErr |-> FALSE, query |-> <<"limit=5">>] }
SessionIDs == {"s1"}
Bodies == [readable : {TRUE}, text : BodyTexts] \cup {[readable |-> FALSE, text |-> ""]}
Answers ==
    {[err |-> TRUE, StatusCode |-> 0, body |-> [readable |-> FALSE, text |-> ""]]}
    \cup [err : {FALSE}, StatusCode : Statuses, body : Bodies]

\* ---------------------------------------------------------------- actions

Init ==
    /\ zclient = NoClient
    /\ call = [op |-> "none"]
    /\ stdout = <<>>
    /\ sclient = NoSearchClient
    /\ heap = <<>>
    /\ pc = "idle"

DoNewZepClient ==
    /\ ~zclient.made
    /\ \E serverURL \in ServerURLs, apiKey \in ApiKeys, resp \in HealthOutcomes :
        LET r == NewZepClient(serverURL, apiKey, resp)
        IN  /\ zclient' = r.client
            /\ stdout' = r.out
            /\ call' = [op |-> "NewZepClient", serverURL |-> serverURL,
                        apiKey |-> apiKey, resp |-> resp, check |-> r.err]
    /\ UNCHANGED searchVars

DoCheckServer ==
    /\ zclient.made
    /\ \E resp \in HealthOutcomes :
        LET r == CheckServer(zclient, resp)
        IN  /\ stdout' = r.out
            /\ call' = [op |-> "CheckServer", resp |-> resp, err |-> r.err]
    /\ UNCHANGED <<zclient, searchVars>>

DoHandleRequest ==
    /\ zclient.made
    /\ \E resp \in RequestOutcomes, notFoundMessage \in NotFoundMessages :
        LET r == HandleRequest(resp, notFoundMessage)
        IN  call' = [op |-> "HandleRequest", resp |-> resp,
                     notFoundMessage |-> notFoundMessage,
                     response |-> r.response, err |-> r.err]
    /\ stdout' = <<>>
    /\ UNCHANGED <<zclient, searchVars>>

DoGetFullURL ==
    /\ zclient.made
    /\ \E endpoint \in Endpoints :
        call' = [op |-> "GetFullURL", endpoint |-> endpoint,
                 url |-> GetFullURL(zclient, endpoint)]
    /\ stdout' = <<>>
    /\ UNCHANGED <<zclient, searchVars>>

Next ==
    \/ DoNewZepClient
    \/ DoCheckServer
    \/ DoHandleRequest
    \/ DoGetFullURL

Spec == Init /\ [][Next]_vars

\* The header objects still referenced once a call is over: the client's.
Collect(h, c) == SubSeq(h, 1, c.header)

DoNewClient ==
    /\ ~sclient.made
    /\ pc = "idle"
    /\ \E options \in RequestOptions :
        LET r == NewClient(heap, options)
        IN  /\ sclient' = r.client
            /\ heap' = r.heap
            /\ call' = [op |-> "NewClient", options |-> options]
    /\ UNCHANGED <<pc, legacyVars>>

\* Get up to the request leaving: the query values, the URL and the headers.
\* A payload that core.QueryValues rejects ends the call here.
GetSend ==
    /\ sclient.made
    /\ pc = "idle"
    /\ \E sessionID \in SessionIDs, request \in Requests, options \in RequestOptions :
        IF request.queryErr
        THEN /\ call' = [op |-> "Get", sessionID |-> sessionID, request |-> request,
                         options |-> options, sent |-> FALSE, done |-> TRUE,
                         response |-> FALSE, err |-> OtherErr("query error")]
             /\ UNCHANGED <<heap, pc>>
        ELSE LET hs == RequestHeaders(heap, sclient, options)
             IN  /\ call' = [op |-> "Get", sessionID |-> sessionID, request |-> request,
                             options |-> options, sent |-> TRUE, done |-> FALSE,
                             url |-> EndpointURL(ChooseBaseURL(sclient, options),
                                                 sessionID, request),
                             headers |-> hs.headers,
                             response |-> FALSE, err |-> NoErr]
                 /\ heap' = Collect(hs.heap, sclient)
                 /\ pc' = "calling"
    /\ UNCHANGED <<sclient, legacyVars>>

\* Get from the answer on: what caller.Call returns is what Get returns.
GetReturn ==
    /\ pc = "calling"
    /\ \E answer \in Answers :
        LET r == CallerCall(answer)
        IN  call' = [call EXCEPT !.done = TRUE, !.response = r.response, !.err = r.err]
                        @@ [answer |-> answer]
    /\ pc' = "idle"
    /\ UNCHANGED <<sclient, heap, legacyVars>>

SearchNext ==
    \/ DoNewClient
    \/ GetSend
    \/ GetReturn

SearchSpec == Init /\ [][SearchNext]_vars

\* --------------------------------------------------- claims: legacy client

LastStatus == IF call.resp.err THEN -1 ELSE call.resp.StatusCode

\* C1: HandleRequest maps the outcome by the status code alone: 200 gives the
\* response and a nil error, 404 a NotFoundError whose message is the
\* notFoundMessage argument, 401 an AuthenticationError, every other status an
\* APIError, a transport failure a ZepError; exactly one of response and error
\* is non-nil.
C1_HandleRequestMapping ==
    call.op = "HandleRequest" =>
        /\ call.resp.err => ~call.response /\ call.err.kind = "ZepError"
        /\ LastStatus = 200 => call.response /\ call.err.kind = "nil"
        /\ LastStatus = 404 =>
               /\ ~call.response
               /\ call.err = [kind |-> "NotFoundError", Message |-> <<call.notFoundMessage>>]
        /\ LastStatus = 401 => ~call.response /\ call.err.kind = "AuthenticationError"
        /\ LastStatus \notin {-1, 200, 404, 401} =>
               ~call.response /\ call.err.kind = "APIError"
        /\ call.response <=> call.err.kind = "nil"

C1_Witness ==
    /\ call.op = "HandleRequest"
    /\ LastStatus = 401
    /\ call.err.kind = "AuthenticationError"
    /\ ~call.response

\* The version headers of the model that read as a version below 0.16.0 in
\* semantic-version order: 0.0.0, 0.15 (0.15.0), v0.15.0 and the prerelease
\* 0.16.0-rc.
BelowMinHeaders ==
    { <<"0", ".", "0", ".", "0">>, <<"0", ".", "15">>,
      <<"v", "0", ".", "15", ".", "0">>, <<"0", ".", "16", ".", "0", "-", "rc">> }

\* C4: when the health response has status 200 and a version below the
\* minimum, CheckServer prints the warning and returns nil.
C4_BelowMinimumOnlyWarns ==
    ( /\ call.op = "CheckServer"
      /\ LastStatus = 200
      /\ call.resp.Version \in BelowMinHeaders )
    => /\ call.err.kind = "nil"
       /\ stdout = << <<"Warning: ", MinServerWarningMsg>> >>

C4_Witness ==
    /\ call.op = "CheckServer"
    /\ LastStatus = 200
    /\ call.resp.Version = <<"0", ".", "15">>
    /\ call.err.kind = "nil"
    /\ Len(stdout) = 1

\* C5: CheckServer returns a non-nil error whenever the health endpoint
\* answers with a status other than 200, whatever the version header is, and
\* returns nil only when the status is 200.
C5_Non200IsAnError ==
    call.op = "CheckServer" =>
        /\ (~call.resp.err /\ call.resp.StatusCode # 200) => call.err.kind # "nil"
        /\ call.err.kind = "nil" => LastStatus = 200

C5_Witness ==
    /\ call.op = "CheckServer"
    /\ LastStatus = 201
    /\ call.resp.Version = <<"0", ".", "17", ".", "0">>
    /\ call.err.kind = "ZepError"

\* C6, as claimed: when the health check run by NewZepClient meets a non-200
\* status, NewZepClient does not hand the caller a client.
C6_FailedCheckGivesNoClient ==
    (call.op = "NewZepClient" /\ LastStatus \notin {-1, 200}) => ~zclient.made

\* C6, amended: a failed health check (a non-200 status included) only prints
\* the error CheckServer returned; NewZepClient still returns the client, with
\* the fields it has when the check passes.
C6_FailedCheckIsOnlyPrinted ==
    call.op = "NewZepClient" =>
        /\ zclient.made
        /\ \E suffix \in {<<>>, <<"/">>} : zclient.ServerURL \o suffix = call.serverURL
        /\ LastStatus \notin {-1, 200} =>
               /\ call.check.kind # "nil"
               /\ Len(stdout) >= 1
               /\ stdout[Len(stdout)] = call.check.Message
        /\ (LastStatus = 200 /\ call.check.kind = "nil") =>
               \A i \in 1..Len(stdout) : stdout[i] = <<"Warning: ", MinServerWarningMsg>>

C6_Witness ==
    /\ call.op = "NewZepClient"
    /\ LastStatus = 500
    /\ call.check.kind = "ZepError"
    /\ zclient.made
    /\ stdout = << <<ServerErrorMessage>> >>

\* C7: the ServerURL stored by NewZepClient does not end with "/", for every
\* serverURL, those ending in several slashes included.
C7_NoTrailingSlash ==
    zclient.made =>
        (Len(zclient.ServerURL) = 0 \/ zclient.ServerURL[Len(zclient.ServerURL)] # "/")

\* C9: GetFullURL(endpoint) is the server URL followed by "/api/v1" followed by
\* the endpoint, with nothing else inserted.
C9_FullURLIsConcatenation ==
    call.op = "GetFullURL" =>
        call.url = zclient.ServerURL \o <<"/", "api", "/", "v1">> \o call.endpoint

\* --------------------------------------------------- claims: search client

\* The last call is a Get whose answer reached the error decoder with a body
\* that could be read.
ErrorDecoded ==
    /\ call.op = "Get"
    /\ call.sent
    /\ call.done
    /\ ~call.answer.err
    /\ (call.answer.StatusCode < 200 \/ call.answer.StatusCode >= 300)
    /\ call.answer.body.readable

\* The last error body is a JSON object, which decodes into a typed error.
LastBodyIsJSONObject == call.answer.body.text = "{\"message\":\"m\"}"

\* C2, as claimed: the error of Get is decided by the status code alone: 404
\* a not-found error, 401 an authentication error, 500 an internal server
\* error, every other error status the generic API error.
C2_CategorizedByStatusAlone ==
    ErrorDecoded =>
        call.err.kind =
            CASE call.answer.StatusCode = 404 -> "NotFoundError"
              [] call.answer.StatusCode = 401 -> "AuthenticationError"
              [] call.answer.StatusCode = 500 -> "InternalServerError"
              [] OTHER -> "core.APIError"

\* C2, amended: 404 gives the not-found error and 500 the internal server
\* error when the body decodes as JSON; every other error status, 401
\* included, and a 404 or 500 whose body does not decode, give the generic
\* API error.  No status gives an authentication error.
C2_CategorizedByStatusAndBody ==
    ErrorDecoded =>
        call.err.kind =
            CASE call.answer.StatusCode = 404 /\ LastBodyIsJSONObject -> "NotFoundError"
              [] call.answer.StatusCode = 500 /\ LastBodyIsJSONObject -> "InternalServerError"
              [] OTHER -> "core.APIError"

C2_Witness ==
    /\ ErrorDecoded
    /\ call.answer.StatusCode = 401
    /\ call.err.kind = "core.APIError"

\* C3: the error the decoder returns carries the status code and the raw
\* body; for a 404 or 500 whose body does not decode it is the generic API
\* error of that status and body, not a JSON error nor a typed error.
C3_ErrorCarriesStatusAndBody ==
    ErrorDecoded =>
        /\ call.err.StatusCode = call.answer.StatusCode
        /\ call.err.raw = call.answer.body.text
        /\ (call.answer.StatusCode \in {404, 500} /\ ~LastBodyIsJSONObject) =>
               call.err = [kind |-> "core.APIError",
                           StatusCode |-> call.answer.StatusCode,
                           raw |-> call.answer.body.text, decoded |-> FALSE]

C3_Witness ==
    /\ ErrorDecoded
    /\ call.answer.StatusCode = 500
    /\ call.answer.body.text = "[]"
    /\ call.err.kind = "core.APIError"
    /\ call.err.raw = "[]"

\* A step in which a Get builds and sends its request.
IsGetSend == pc = "idle" /\ call'.op = "Get" /\ call'.sent

\* C8: no step of a Get changes the header set the client stores, whatever
\* headers the call is given and however it ends; the headers sent are the
\* stored ones overridden by those of the call.
C8_StoredHeadersUnchanged ==
    [][ sclient.made =>
          /\ sclient'.header = sclient.header
          /\ heap'[sclient'.header] = heap[sclient.header]
          /\ IsGetSend =>
                \A k \in DOMAIN call'.headers :
                    call'.headers[k] = IF call'.options.Header[k] # ""
                                       THEN call'.options.Header[k]
                                       ELSE heap[sclient.header][k] ]_vars

C8_Witness ==
    /\ call.op = "Get"
    /\ call.sent
    /\ call.done
    /\ call.err.kind # "nil"
    /\ call.options.Header["Authorization"] = "b"
    /\ call.headers["Authorization"] = "b"
    /\ heap[sclient.header]["Authorization"] = "a"

\* C10: the URL of a Get starts with one base URL: the BaseURL of the call if
\* it is not empty, else that of the client if it is not empty, else the
\* default; and no step of a Get changes the base URL the client stores.
C10_BaseURLPrecedence ==
    [][ sclient.made =>
          /\ sclient'.baseURL = sclient.baseURL
          /\ IsGetSend =>
                LET base == IF call'.options.BaseURL # <<>> THEN call'.options.BaseURL
                            ELSE IF sclient.baseURL # <<>> THEN sclient.baseURL
                            ELSE <<"https:", "/", "/", "api.getzep.com", "/", "api", "/", "v2">>
                IN  SubSeq(call'.url, 1, Len(base) + 6) =
                        base \o <<"/", "sessions", "/", call'.sessionID, "/", "search">> ]_vars

C10_Witness ==
    /\ call.op = "Get"
    /\ call.sent
    /\ call.options.BaseURL = <<>>
    /\ sclient.baseURL = <<"https:", "/", "/", "a">>
    /\ SubSeq(call.url, 1, 4) = <<"https:", "/", "/", "a">>

====
